---- MODULE Spec2Model ----
(***************************************************************************)
(* A model of autoscheduler2: the entry point main.py (Docker bootstrap,   *)
(* exception handlers), the CLI menu loop, the Schedule constructor and    *)
(* its stub API, the ScopeManager stubs, and the LLM client.               *)
(*                                                                         *)
(* Python values are written as their repr strings ("False", "None",       *)
(* "[]", "''", "('', '')"); text that the code inspects (input lines, the  *)
(* CHROMADB_PORT value, message contents) is a sequence of characters.     *)
(***************************************************************************)
EXTENDS Integers, Sequences, FiniteSets, TLC

VARIABLES
    pc,                 \* position of the main thread
    exitStatus,         \* argument of sys.exit, "none" while it was not called
    mainExc,            \* the exception that reached main's handlers, or "none"
    dockerRet,          \* return value of check_docker_containers, "none" before it returns
    cmds,               \* the subprocess commands run so far by check_docker_containers
    lastRes,            \* outcome of the last subprocess command
    services_to_start,  \* local of check_docker_containers
    elapsed,            \* local of check_docker_containers
    cliStarted,         \* cli_main() has been called
    schedule,           \* the fields of the Schedule object
    scheduleAtInit,     \* the fields as the constructor left them
    world,              \* the environment the Schedule constructor met
    tried,              \* the ChromaDB clients the constructor tried, in order
    choice,             \* the last menu choice, stripped
    called,             \* the method the last operation called
    args,               \* its arguments
    ret,                \* its return value
    raised,             \* the exception it raised, or "none"
    out,                \* the lines it printed
    llmEnv,             \* OPENAI_API_KEY and OPENAI_MODEL
    llm,                \* the fields of the LLMClient object
    llmRaised,          \* the exception the last LLMClient call raised, or "none"
    request,            \* the last request sent to the completions API
    promptArgs,         \* the arguments of the call of LLMClient.prompt
    answer,             \* what the completions API answers to the next request
    completion,         \* the completion the API returned
    llmRet              \* the value the last LLMClient call returned

vars == <<pc, exitStatus, mainExc, dockerRet, cmds, lastRes, services_to_start,
          elapsed, cliStarted, schedule, scheduleAtInit, world, tried, choice,
          called, args, ret, raised, out, llmEnv, llm, llmRaised, request,
          promptArgs, answer, completion, llmRet>>

mainVars  == <<pc, exitStatus, mainExc, dockerRet, cmds, lastRes,
               services_to_start, elapsed, cliStarted>>
schedVars == <<schedule, scheduleAtInit, world, tried>>
callVars  == <<choice, called, args, ret, raised, out>>
llmVars   == <<llmEnv, llm, llmRaised, request, promptArgs, answer, completion,
               llmRet>>

-----------------------------------------------------------------------------
(* Bounds of the model *)

MaxPortLen == 2     \* longest CHROMADB_PORT value tried
MaxPad == 1         \* most blanks typed before or after a menu choice
MaxContentLen == 2  \* longest message content returned by the API
MaxChoices == 2     \* most choices in a completion
MaxToolCalls == 2   \* most tool calls in a message

-----------------------------------------------------------------------------
(* Python helpers *)

RECURSIVE SeqsUpTo(_, _)
SeqsUpTo(S, n) ==
    IF n = 0 THEN {<<>>}
    ELSE LET shorter == SeqsUpTo(S, n - 1)
         IN  shorter \cup {Append(s, c) : s \in {t \in shorter : Len(t) = n - 1}, c \in S}

\* bool(v) for the values the stubs return
Truthy(v) == v \notin {"False", "None", "[]", "''", "0"}

\* KeyboardInterrupt and SystemExit derive from BaseException, not Exception
IsException(e) == e \notin {"none", "KeyboardInterrupt", "SystemExit"}

Whitespace == {" "}
Digits == {"0", "1", "2", "3", "4", "5", "6", "7", "8", "9"}

RECURSIVE LStrip(_)
LStrip(s) == IF s # <<>> /\ Head(s) \in Whitespace THEN LStrip(Tail(s)) ELSE s

RECURSIVE RStrip(_)
RStrip(s) ==
    IF s # <<>> /\ s[Len(s)] \in Whitespace THEN RStrip(SubSeq(s, 1, Len(s) - 1)) ELSE s

\* str.strip()
Strip(s) == RStrip(LStrip(s))

-----------------------------------------------------------------------------
(* Schedule.__init__ and its helpers *)

PortAlphabet == {"8", "x", " ", "-", "_"}

\* os.environ as the constructor reads it: CHROMADB_PORT unset or set to text
PortValues ==
    {[set |-> FALSE, val |-> <<>>]}
        \cup {[set |-> TRUE, val |-> s] : s \in SeqsUpTo(PortAlphabet, MaxPortLen)}

\* What the constructor can meet: the Neo4j test query answers 1 ("ok"),
\* answers something else ("wrong") or the connection raises ("down"); the
\* ChromaDB server answers the heartbeat or not; the persistent client can be
\* created or not; each collection can be created or not.
Worlds ==
    [neo4j : {"ok", "wrong", "down"},
     port : PortValues,
     server : {"up", "down"},
     persistent : {"ok", "fail"},
     activities : {"ok", "fail"},
     relationships : {"ok", "fail"}]

NoWorld ==
    [neo4j |-> "unset", port |-> [set |-> FALSE, val |-> <<>>], server |-> "unset",
     persistent |-> "unset", activities |-> "unset", relationships |-> "unset"]

\* os.getenv(name, default)
GetEnv(v, default) == IF v.set THEN v.val ELSE default

\* int(s) accepts: optional surrounding whitespace, an optional sign, then
\* digits, single underscores allowed between digits
IsIntLiteral(s) ==
    LET t == Strip(s)
        u == IF t # <<>> /\ t[1] \in {"+", "-"} THEN Tail(t) ELSE t
    IN  /\ u # <<>>
        /\ \A i \in 1..Len(u) : u[i] \in Digits \cup {"_"}
        /\ u[1] \in Digits
        /\ u[Len(u)] \in Digits
        /\ \A i \in 1..(Len(u) - 1) : ~(u[i] = "_" /\ u[i + 1] = "_")

EmptyDiGraph == [nodes |-> {}, edges |-> {}]

NoSchedule ==
    [neo4j_db |-> "unset", chroma_client |-> "unset",
     graph |-> [nodes |-> {"unset"}, edges |-> {}],
     activities_embeddings |-> "unset", relationships_embeddings |-> "unset"]

\* The outcome of a call: the value returned, or the exception raised
Return(v) == [val |-> v, raised |-> "none"]
Raise(e) == [val |-> "None", raised |-> e]

\* try: <body> / except Exception: <log> / then the code after the try
\* statement yields v.  Anything that is not an Exception propagates.
ExceptException(body, v) == IF IsException(body.raised) THEN Return(v) ELSE body

\* a faulty _initialize_neo4j: no except clause around the connection test
InitializeNeo4jNoExcept(w) ==
    CASE w.neo4j = "ok"   -> Return("driver")
      [] w.neo4j = "down" -> Raise("ServiceUnavailable")
      [] OTHER            -> Return("None")

\* Schedule._initialize_neo4j: the driver when the test query answers 1;
\* None when it answers anything else (the with block falls through) or
\* when anything in the try block raises
InitializeNeo4j(w) ==
    LET try == CASE w.neo4j = "ok"   -> Return("driver")
                 [] w.neo4j = "down" -> Raise("ServiceUnavailable")
                 [] OTHER            -> Return("None")
    IN  ExceptException(try, "None")

\* a faulty _initialize_chromadb: no fallback to the persistent client
InitializeChromadbNoFallback(w) ==
    IF ~IsIntLiteral(GetEnv(w.port, <<"8", "0", "0", "0">>))
    THEN [val |-> "None", raised |-> "none", tried |-> <<>>]
    ELSE IF w.server = "up"
    THEN [val |-> "HttpClient", raised |-> "none", tried |-> <<"HttpClient">>]
    ELSE [val |-> "None", raised |-> "none", tried |-> <<"HttpClient">>]

\* Schedule._initialize_chromadb: the client returned and the clients tried
InitializeChromadb(w) ==
    LET port == IF IsIntLiteral(GetEnv(w.port, <<"8", "0", "0", "0">>))
                THEN Return("port") ELSE Raise("ValueError")
        server == IF w.server = "up"
                  THEN Return("HttpClient") ELSE Raise("ConnectionError")
        persistent == IF w.persistent = "ok"
                      THEN Return("PersistentClient") ELSE Raise("OSError")
        try == IF port.raised # "none" THEN port
               ELSE IF server.raised = "none" THEN server
               ELSE IF IsException(server.raised) THEN persistent
               ELSE server
        result == ExceptException(try, "None")
    IN  [val |-> result.val,
         raised |-> result.raised,
         tried |-> IF port.raised # "none" THEN <<>>
                   ELSE IF server.raised = "none" THEN <<"HttpClient">>
                   ELSE <<"HttpClient", "PersistentClient">>]

\* Schedule._get_or_create_collection
GetOrCreateCollection(client, collection_name, w) ==
    IF ~Truthy(client) THEN Return("None")
    ELSE LET try == IF w[collection_name] = "ok"
                    THEN Return("Collection") ELSE Raise("ChromaError")
         IN  ExceptException(try, "None")

\* Schedule.__init__: the fields of the new object, the clients tried and the
\* exception that left the constructor, "none" when it completed
ScheduleInit(w) ==
    LET neo4j  == InitializeNeo4j(w)
        chroma == InitializeChromadb(w)
        acts   == GetOrCreateCollection(chroma.val, "activities", w)
        rels   == GetOrCreateCollection(chroma.val, "relationships", w)
        steps  == <<neo4j.raised, chroma.raised, acts.raised, rels.raised>>
        failed == {i \in 1..4 : steps[i] # "none"}
    IN  [fields |->
             [neo4j_db |-> neo4j.val,
              chroma_client |-> chroma.val,
              graph |-> EmptyDiGraph,
              activities_embeddings |-> acts.val,
              relationships_embeddings |-> rels.val],
         tried |-> chroma.tried,
         raised |-> IF failed = {} THEN "none"
                    ELSE steps[CHOOSE i \in failed : \A j \in failed : i <= j]]

\* what Schedule() can yield over all environments
ScheduleOutcomes == {ScheduleInit(w) : w \in Worlds}

-----------------------------------------------------------------------------
(* The Schedule API: every method is a stub.  Each operator gives the       *)
(* schedule after the call, the value returned and the lines printed.       *)

ArgValues == {"None", "a1", "floor 2"}

Result(s, r, lines) == [sched |-> s, ret |-> r, raised |-> "none", out |-> lines]

add_activity(s, activity) ==
    Result(s, "False", <<"Adding activity to schedule: ", activity>>)

\* a faulty remove_activity: reports success when it is given an id
remove_activity_reports_success(s, activity_id) ==
    Result(s, IF activity_id = "None" THEN "False" ELSE "True",
           <<"Removing activity from schedule: ", activity_id>>)

remove_activity(s, activity_id) ==
    Result(s, "False", <<"Removing activity from schedule: ", activity_id>>)

add_relationship(s, relationship) ==
    Result(s, "False", <<"Adding relationship to schedule: ", relationship>>)

remove_relationship(s, relationship_id) ==
    Result(s, "False", <<"Removing relationship from schedule: ", relationship_id>>)

update_graph(s) ==
    Result(s, "False", <<"Updating NetworkX graph from Neo4j database...">>)

compute_critical_path(s) == Result(s, "[]", <<"Computing critical path...">>)

get_activities(s) == Result(s, "[]", <<>>)

get_relationships(s) == Result(s, "[]", <<>>)

semantic_search_activities(s, query) ==
    Result(s, "[]", <<"Searching activities for: ", query>>)

semantic_search_relationships(s, query) ==
    Result(s, "[]", <<"Searching relationships for: ", query>>)

ScheduleMutators ==
    {"add_activity", "remove_activity", "add_relationship", "remove_relationship",
     "update_graph"}

ScheduleQueries ==
    {"compute_critical_path", "get_activities", "get_relationships",
     "semantic_search_activities", "semantic_search_relationships"}

\* schedule.<name>(a)
CallSchedule(name, s, a) ==
    CASE name = "add_activity"                  -> add_activity(s, a)
      [] name = "remove_activity"               -> remove_activity(s, a)
      [] name = "add_relationship"              -> add_relationship(s, a)
      [] name = "remove_relationship"           -> remove_relationship(s, a)
      [] name = "update_graph"                  -> update_graph(s)
      [] name = "compute_critical_path"         -> compute_critical_path(s)
      [] name = "get_activities"                -> get_activities(s)
      [] name = "get_relationships"             -> get_relationships(s)
      [] name = "semantic_search_activities"    -> semantic_search_activities(s, a)
      [] name = "semantic_search_relationships" -> semantic_search_relationships(s, a)
      [] OTHER -> [sched |-> s, ret |-> "None", raised |-> "AttributeError", out |-> <<>>]

-----------------------------------------------------------------------------
(* ScopeManager: every method is a stub *)

SM_dispatch(s) ==
    Result(s, "False",
           <<"Natural language prompt interface not implemented yet.",
             "This will allow users to enter commands like:",
             "- 'Add activities for excavation on floor 1'",
             "- 'Delete all activities on the second floor'">>)

SM_separate_prompt(s, prompt) == Result(s, "('', '')", <<>>)

SM_read_scope(s, prompt, toolkit) == Result(s, "''", <<>>)

SM_remove_scope(s, removal_prompt) == Result(s, "False", <<>>)

SM_add_scope(s, additions_prompt) == Result(s, "False", <<>>)

\* a faulty _add_activity: puts a node into the schedule's graph
SM_add_activity_adds_node(s, prompt, activity) ==
    Result([s EXCEPT !.graph.nodes = @ \cup {"activity"}], "False",
           <<"Add activity functionality not implemented yet.",
             "This will allow adding activities with name, description, and duration.">>)

SM_add_activity(s, prompt, activity) ==
    Result(s, "False",
           <<"Add activity functionality not implemented yet.",
             "This will allow adding activities with name, description, and duration.">>)

SM_add_relationship(s, prompt, relationship) ==
    Result(s, "False",
           <<"Add relationship functionality not implemented yet.",
             "This will allow adding FS, SS, FF, SF relationships between activities.">>)

SM_delete_activity(s, prompt, activity_id) ==
    Result(s, "False",
           <<"Delete activity functionality not implemented yet.",
             "This will allow removing activities by ID or description.">>)

SM_dissolve_activity(s, prompt, activity_id) ==
    Result(s, "False",
           <<"Dissolve activity functionality not implemented yet.",
             "This will remove an activity while preserving its relationships.">>)

SM_delete_relationship(s, prompt, relationship) ==
    Result(s, "False",
           <<"Delete relationship functionality not implemented yet.",
             "This will allow removing relationships by ID or description.">>)

\* the methods class ScopeManager defines (besides __init__)
ScopeManagerMethods ==
    {"_dispatch", "_separate_prompt", "_read_scope", "_remove_scope", "_add_scope",
     "_add_activity", "_add_relationship", "_delete_activity", "_dissolve_activity",
     "_delete_relationship"}

\* scope_manager.<name>(a, b): looking up a name the class does not define
\* raises AttributeError
CallScopeManager(name, s, a, b) ==
    CASE name = "_dispatch"            -> SM_dispatch(s)
      [] name = "_separate_prompt"     -> SM_separate_prompt(s, a)
      [] name = "_read_scope"          -> SM_read_scope(s, a, b)
      [] name = "_remove_scope"        -> SM_remove_scope(s, a)
      [] name = "_add_scope"           -> SM_add_scope(s, a)
      [] name = "_add_activity"        -> SM_add_activity(s, a, b)
      [] name = "_add_relationship"    -> SM_add_relationship(s, a, b)
      [] name = "_delete_activity"     -> SM_delete_activity(s, a, b)
      [] name = "_dissolve_activity"   -> SM_dissolve_activity(s, a, b)
      [] name = "_delete_relationship" -> SM_delete_relationship(s, a, b)
      [] OTHER -> [sched |-> s, ret |-> "None", raised |-> "AttributeError", out |-> <<>>]

-----------------------------------------------------------------------------
(* main.py: check_docker_containers and main *)

max_wait == 60
initial_wait == 10
poll_interval == 5

required_services == <<"neo4j", "chromadb">>

Services == {"neo4j", "chromadb", "web"}

\* how subprocess.run can end: exit status 0, another exit status, an
\* Exception (the executable is missing) or Ctrl-C
RunOutcomes == {"ok", "nonzero", "FileNotFoundError", "KeyboardInterrupt"}

\* [s for s in required_services if s not in running_services]
ServicesToStart(running_services) ==
    LET NotRunning(s) == s \notin running_services
    IN  SelectSeq(required_services, NotRunning)

\* a faulty except clause: catches nothing
CheckExceptNothing(e) == Raise(e)

\* the except clause of check_docker_containers
CheckExcept(e) == IF IsException(e) THEN Return("False") ELSE Raise(e)

\* a faulty main: gives up when the Docker check reports a failure
AfterCheckRequireDocker(v) == IF v = "True" THEN "cli_main" ELSE "exited"

\* main: the statement that follows check_docker_containers() returning v
AfterCheck(v) == "cli_main"

\* faulty handlers: Ctrl-C is reported as an error
MainExceptAlwaysOne(e) ==
    IF e = "KeyboardInterrupt" \/ IsException(e) THEN "1" ELSE "uncaught"

\* main's handlers: the argument of sys.exit for an exception leaving the try
MainExcept(e) ==
    IF e = "KeyboardInterrupt" THEN "0"
    ELSE IF IsException(e) THEN "1"
    ELSE "uncaught"

\* an exception reaches main's handlers
Leave(e) ==
    /\ pc' = "exited"
    /\ mainExc' = e
    /\ exitStatus' = MainExcept(e)
    /\ services_to_start' = <<>>
    /\ elapsed' = 0
    /\ UNCHANGED dockerRet

\* check_docker_containers returns v
CheckReturns(v) ==
    /\ dockerRet' = v
    /\ pc' = AfterCheck(v)
    /\ services_to_start' = <<>>
    /\ elapsed' = 0
    /\ UNCHANGED <<mainExc, exitStatus>>

\* e is raised inside the try block of check_docker_containers
CheckRaises(e) ==
    LET h == CheckExcept(e)
    IN  IF h.raised = "none" THEN CheckReturns(h.val) ELSE Leave(h.raised)

\* subprocess.run(['docker-compose', '--version'])
DockerVersion ==
    /\ pc = "dc_version"
    /\ \E r \in RunOutcomes :
        /\ cmds' = Append(cmds, "version")
        /\ lastRes' = r
        /\ CASE r = "ok" ->
                    /\ pc' = "dc_ps"
                    /\ UNCHANGED <<dockerRet, mainExc, exitStatus,
                                   services_to_start, elapsed>>
             [] r = "nonzero" -> CheckReturns("False")
             [] OTHER -> CheckRaises(r)
    /\ UNCHANGED <<cliStarted, schedVars, callVars, llmVars>>

\* subprocess.run(['docker-compose', 'ps', ...]): its exit status is not
\* looked at, only the services its output lists
DockerPs ==
    /\ pc = "dc_ps"
    /\ \E r \in RunOutcomes, running_services \in SUBSET Services :
        /\ cmds' = Append(cmds, "ps")
        /\ lastRes' = r
        /\ IF r \in {"ok", "nonzero"}
           THEN IF ServicesToStart(running_services) # <<>>
                THEN /\ pc' = "dc_up"
                     /\ services_to_start' = ServicesToStart(running_services)
                     /\ UNCHANGED <<dockerRet, mainExc, exitStatus, elapsed>>
                ELSE CheckReturns("True")
           ELSE CheckRaises(r)
    /\ UNCHANGED <<cliStarted, schedVars, callVars, llmVars>>

\* subprocess.run(['docker-compose', 'up', '-d'] + services_to_start), then
\* time.sleep(10), which Ctrl-C can interrupt
DockerUp ==
    /\ pc = "dc_up"
    /\ \E r \in RunOutcomes, interrupted \in BOOLEAN :
        /\ cmds' = Append(cmds, "up")
        /\ lastRes' = r
        /\ CASE r = "ok" /\ ~interrupted ->
                    /\ pc' = "dc_wait"
                    /\ elapsed' = initial_wait
                    /\ UNCHANGED <<dockerRet, mainExc, exitStatus, services_to_start>>
             [] r = "ok" /\ interrupted -> Leave("KeyboardInterrupt")
             [] r = "nonzero" -> CheckReturns("False")
             [] OTHER -> CheckRaises(r)
    /\ UNCHANGED <<cliStarted, schedVars, callVars, llmVars>>

\* one round of the while loop: time.sleep(5), elapsed += 5, docker inspect.
\* "healthy": exit status 0 and the output is healthy; "ok": exit status 0
\* and another output.
DockerWait ==
    /\ pc = "dc_wait"
    /\ elapsed < max_wait
    /\ \/ /\ Leave("KeyboardInterrupt")
          /\ UNCHANGED <<cmds, lastRes>>
       \/ \E r \in RunOutcomes \cup {"healthy"} :
            /\ cmds' = Append(cmds, "inspect")
            /\ lastRes' = r
            /\ CASE r = "healthy" -> CheckReturns("True")
                 [] r \in {"ok", "nonzero"} ->
                        IF elapsed + poll_interval < max_wait
                        THEN /\ elapsed' = elapsed + poll_interval
                             /\ UNCHANGED <<pc, dockerRet, mainExc, exitStatus,
                                            services_to_start>>
                        ELSE CheckReturns("True")
                 [] OTHER -> CheckRaises(r)
    /\ UNCHANGED <<cliStarted, schedVars, callVars, llmVars>>

-----------------------------------------------------------------------------
(* The CLI *)

\* what the user types at the menu prompt: a valid choice, another digit,
\* several characters or nothing, with blanks around it
InputCores ==
    {<<>>, <<"1", "2">>, <<"8", " ", "8">>, <<"x">>}
        \cup {<<c>> : c \in {"1", "2", "3", "4", "5", "6", "7", "8", "9", "0"}}

Blanks == SeqsUpTo(Whitespace, MaxPad)

InputLines == {l \o c \o r : l \in Blanks, c \in InputCores, r \in Blanks}

\* CLI._show_result
ShowResult(success, operation) ==
    IF Truthy(success)
    THEN <<operation, "completed successfully!">>
    ELSE <<operation, "failed or was cancelled.">>

\* the branches of CLI.run that call a ScopeManager method
MenuEntries ==
    [c \in {<<"1">>, <<"2">>, <<"3">>, <<"4">>, <<"5">>, <<"6">>} |->
        CASE c = <<"1">> -> [header |-> "--- Add Activity ---",
                             method |-> "_add_activity",
                             operation |-> "Activity operation"]
          [] c = <<"2">> -> [header |-> "--- Delete Activity ---",
                             method |-> "_delete_activity",
                             operation |-> "Delete activity operation"]
          [] c = <<"3">> -> [header |-> "--- Add Relationship ---",
                             method |-> "_add_relationship",
                             operation |-> "Add relationship operation"]
          [] c = <<"4">> -> [header |-> "--- Delete Relationship ---",
                             method |-> "_delete_relationship",
                             operation |-> "Delete relationship operation"]
          [] c = <<"5">> -> [header |-> "--- Dissolve Relationship ---",
                             method |-> "_dissolve_relationship",
                             operation |-> "Dissolve relationship operation"]
          [] c = <<"6">> -> [header |-> "--- Open Prompt ---",
                             method |-> "_dispatch",
                             operation |-> "Natural language prompt operation"]]

\* the if/elif chain of CLI.run on the stripped choice c
RunChoice(c, s) ==
    IF c \in DOMAIN MenuEntries
    THEN LET m == MenuEntries[c]
             r == CallScopeManager(m.method, s, "None", "None")
         IN  [called |-> m.method, sched |-> r.sched, ret |-> r.ret,
              raised |-> r.raised, quit |-> FALSE,
              out |-> <<m.header>> \o r.out \o
                      (IF r.raised = "none"
                       THEN ShowResult(r.ret, m.operation) ELSE <<>>)]
    ELSE IF c = <<"7">>
    THEN [called |-> "none", sched |-> s, ret |-> "None", raised |-> "none",
          quit |-> FALSE,
          out |-> <<"--- Run Schedule ---", "Schedule execution not implemented yet.">>]
    ELSE IF c = <<"8">>
    THEN [called |-> "none", sched |-> s, ret |-> "None", raised |-> "none",
          quit |-> TRUE, out |-> <<"Goodbye!">>]
    ELSE [called |-> "none", sched |-> s, ret |-> "None", raised |-> "none",
          quit |-> FALSE,
          out |-> <<"Invalid choice. Please enter a number between 1 and 8.">>]

\* how input() can end besides returning a line
InputErrors == {"KeyboardInterrupt", "EOFError"}

\* cli_main: CLI() builds the Schedule and the ScopeManager; Ctrl-C can
\* arrive while the constructors wait for the databases
CliMain ==
    /\ pc = "cli_main"
    /\ cliStarted' = TRUE
    /\ \E c \in ScheduleOutcomes, e \in {"none", "KeyboardInterrupt"} :
        LET exc == IF e # "none" THEN e ELSE c.raised
        IN  IF exc = "none"
            THEN /\ schedule' = c.fields
                 /\ scheduleAtInit' = c.fields
                 /\ pc' = "cli_menu"
                 /\ UNCHANGED <<exitStatus, mainExc, dockerRet,
                                services_to_start, elapsed>>
            ELSE /\ Leave(exc)
                 /\ UNCHANGED <<schedule, scheduleAtInit>>
    /\ UNCHANGED <<cmds, lastRes, world, tried, callVars, llmVars>>

\* one round of the loop of CLI.run up to the second input()
MenuChoice ==
    /\ pc = "cli_menu"
    /\ \/ \E e \in InputErrors :
            /\ Leave(e)
            /\ UNCHANGED <<schedule, callVars>>
       \/ \E line \in InputLines :
            LET r == RunChoice(Strip(line), schedule)
            IN  /\ choice' = Strip(line)
                /\ called' = r.called
                /\ args' = <<>>
                /\ ret' = r.ret
                /\ raised' = r.raised
                /\ out' = r.out
                /\ schedule' = r.sched
                /\ IF r.raised # "none" THEN Leave(r.raised)
                   ELSE /\ pc' = IF r.quit THEN "returned" ELSE "cli_pause"
                        /\ UNCHANGED <<exitStatus, mainExc, dockerRet,
                                       services_to_start, elapsed>>
    /\ UNCHANGED <<cmds, lastRes, cliStarted, scheduleAtInit, world, tried, llmVars>>

\* input("Press Enter to continue...")
PressEnter ==
    /\ pc = "cli_pause"
    /\ \/ \E e \in InputErrors : Leave(e)
       \/ /\ pc' = "cli_menu"
          /\ UNCHANGED <<exitStatus, mainExc, dockerRet, services_to_start, elapsed>>
    /\ UNCHANGED <<cmds, lastRes, cliStarted, schedVars, callVars, llmVars>>

-----------------------------------------------------------------------------
(* llm_client.py: LLMClient *)

\* an Optional[str]: None, or a string of characters
None == [none |-> TRUE, str |-> <<>>]
Str(s) == [none |-> FALSE, str |-> s]

\* bool(v) of an Optional[str]
TruthyStr(v) == ~v.none /\ v.str # <<>>

Unset == [set |-> FALSE, val |-> <<>>]
SetTo(s) == [set |-> TRUE, val |-> s]

\* os.getenv(name): None when the variable is unset
GetEnvOpt(v) == IF v.set THEN Str(v.val) ELSE None

\* os.environ as LLMClient reads it
LLMEnvs ==
    [key : {Unset, SetTo(<<>>), SetTo(<<"s", "k">>)},
     model : {Unset, SetTo(<<>>), SetTo(<<"g", "4">>)}]

gpt_4o_mini == <<"g", "p", "t", "-", "4", "o", "-", "m", "i", "n", "i">>

NoClient == [api_key |-> None, default_model |-> None, client |-> "unset"]
NoRequest == [model |-> None, messages |-> <<>>]
NoCompletion == [ok |-> FALSE, choices |-> <<>>]

\* a faulty __init__: tests "api_key is None", so an empty key passes
LLMClientInitAcceptsEmptyKey(env) ==
    LET api_key == GetEnvOpt(env.key)
    IN  IF api_key.none
        THEN [fields |-> NoClient, raised |-> "ValueError"]
        ELSE [fields |-> [api_key |-> api_key,
                          default_model |-> Str(GetEnv(env.model, gpt_4o_mini)),
                          client |-> "AsyncOpenAI"],
              raised |-> "none"]

\* LLMClient.__init__: the fields of the new object, or the exception raised
LLMClientInit(env) ==
    LET api_key == GetEnvOpt(env.key)
    IN  IF ~TruthyStr(api_key)
        THEN [fields |-> NoClient, raised |-> "ValueError"]
        ELSE [fields |-> [api_key |-> api_key,
                          default_model |-> Str(GetEnv(env.model, gpt_4o_mini)),
                          client |-> "AsyncOpenAI"],
              raised |-> "none"]

preview_len == 100

\* s[:n]; subscripting None raises TypeError
Slice(s, n) ==
    IF s.none THEN Raise("TypeError")
    ELSE Return(SubSeq(s.str, 1, IF Len(s.str) < n THEN Len(s.str) ELSE n))

ContentAlphabet == {"a"}

\* message.content is Optional[str]
Contents == {None} \cup {Str(s) : s \in SeqsUpTo(ContentAlphabet, MaxContentLen)}

\* what chat.completions.create can do: raise, or return a completion
ApiOutcomes ==
    {NoCompletion}
        \cup {[ok |-> TRUE, choices |-> cs] : cs \in SeqsUpTo(Contents, MaxChoices)}

Messages == {<<"user">>, <<"system", "user">>}

ModelArgs == {None, Str(<<>>), Str(<<"g", "5">>)}

\* LLMClient.prompt: the request sent, and the value returned or the
\* exception raised (the except clause logs and re-raises)
Prompt(self, messages, model, api) ==
    LET m == IF TruthyStr(model) THEN model ELSE self.default_model
        req == [model |-> m, messages |-> messages]
    IN  IF ~api.ok
        THEN [request |-> req, ret |-> None, raised |-> "APIError"]
        ELSE IF api.choices = <<>>
        THEN [request |-> req, ret |-> None, raised |-> "IndexError"]
        ELSE LET response == api.choices[1]
                 logged == Slice(response, preview_len)
             IN  IF logged.raised # "none"
                 THEN [request |-> req, ret |-> None, raised |-> logged.raised]
                 ELSE [request |-> req, ret |-> response, raised |-> "none"]

\* client = LLMClient()
NewLLMClient ==
    /\ llm = NoClient
    /\ llmRaised = "none"
    /\ LET c == LLMClientInit(llmEnv)
       IN  /\ llm' = c.fields
           /\ llmRaised' = c.raised
    /\ called' = "LLMClient"
    /\ UNCHANGED <<llmEnv, request, promptArgs, answer, completion, llmRet>>
    /\ UNCHANGED <<mainVars, schedVars, choice, args, ret, raised, out>>

\* await client.prompt(messages, model)
CallPrompt ==
    /\ llm.client # "unset"
    /\ called = "LLMClient"
    /\ LET r == Prompt(llm, promptArgs.messages, promptArgs.model, answer)
       IN  /\ called' = "prompt"
           /\ request' = r.request
           /\ completion' = answer
           /\ llmRet' = r.ret
           /\ llmRaised' = r.raised
    /\ UNCHANGED <<llmEnv, llm, promptArgs, answer>>
    /\ UNCHANGED <<mainVars, schedVars, choice, args, ret, raised, out>>

\* a list returned by an LLMClient method
ListOf(l) == [none |-> FALSE, list |-> l]

\* the tool calls a message can carry: objects with id, type, function.name
\* and function.arguments
ToolCalls ==
    {[id |-> "call_1", type |-> "function",
      function |-> [name |-> "add_activity", arguments |-> "{\"name\": \"dig\"}"]],
     [id |-> "call_2", type |-> "function",
      function |-> [name |-> "delete_activity", arguments |-> "{}"]]}

\* message.tool_calls is Optional[List[...]]
ToolCallLists ==
    {[none |-> TRUE, calls |-> <<>>]}
        \cup {[none |-> FALSE, calls |-> cs] : cs \in SeqsUpTo(ToolCalls, MaxToolCalls)}

\* what chat.completions.create can do when tools are passed: raise, or
\* return a completion; each choice is given by its message.tool_calls
ToolApiOutcomes ==
    {NoCompletion}
        \cup {[ok |-> TRUE, choices |-> cs] : cs \in SeqsUpTo(ToolCallLists, MaxChoices)}

\* the tools argument: dicts with a function name, a dict without the
\* 'function' key, something that is no dict
ToolLists ==
    {<<>>, <<"add_activity">>, <<"add_activity", "no function key">>, <<"not a dict">>}

\* tool.get('function', {}).get('name', 'Unknown')
ToolLogName(tool) ==
    CASE tool = "not a dict"      -> Raise("AttributeError")
      [] tool = "no function key" -> Return("Unknown")
      [] OTHER                    -> Return(tool)

\* bool(tool_calls): None and the empty list are falsy
TruthyList(l) == ~l.none /\ l.calls # <<>>

\* the dict built for one tool call
ToolCallDict(call) ==
    [id |-> call.id,
     type |-> call.type,
     function |-> [name |-> call.function.name,
                   arguments |-> call.function.arguments]]

\* a faulty list: only the first tool call is reported
ToolCallDictsFirstOnly(calls) == <<ToolCallDict(calls[1])>>

\* [{...} for call in tool_calls]
ToolCallDicts(calls) == [i \in 1..Len(calls) |-> ToolCallDict(calls[i])]

\* LLMClient.prompt_with_tools: the request sent (none when the log line
\* about the tools raises first), and the list returned or the exception
\* raised (the except clause logs and re-raises)
PromptWithTools(self, messages, tools, model, api) ==
    LET m == IF TruthyStr(model) THEN model ELSE self.default_model
        req == [model |-> m, messages |-> messages, tools |-> tools,
                tool_choice |-> "auto"]
        badTools == {i \in 1..Len(tools) : ToolLogName(tools[i]).raised # "none"}
    IN  IF badTools # {}
        THEN [request |-> NoRequest, sent |-> FALSE, ret |-> None,
              raised |-> ToolLogName(tools[CHOOSE i \in badTools :
                                             \A j \in badTools : i <= j]).raised]
        ELSE IF ~api.ok
        THEN [request |-> req, sent |-> TRUE, ret |-> None, raised |-> "APIError"]
        ELSE IF api.choices = <<>>
        THEN [request |-> req, sent |-> TRUE, ret |-> None, raised |-> "IndexError"]
        ELSE LET tool_calls == api.choices[1]
             IN  [request |-> req, sent |-> TRUE, raised |-> "none",
                  ret |-> IF TruthyList(tool_calls)
                          THEN ListOf(ToolCallDicts(tool_calls.calls))
                          ELSE ListOf(<<>>)]

\* await client.prompt_with_tools(messages, tools, model)
CallPromptWithTools ==
    /\ llm.client # "unset"
    /\ called = "LLMClient"
    /\ LET r == PromptWithTools(llm, promptArgs.messages, promptArgs.tools,
                                promptArgs.model, answer)
       IN  /\ called' = "prompt_with_tools"
           /\ request' = r.request
           /\ completion' = IF r.sent THEN answer ELSE NoCompletion
           /\ llmRet' = r.ret
           /\ llmRaised' = r.raised
    /\ UNCHANGED <<llmEnv, llm, promptArgs, answer>>
    /\ UNCHANGED <<mainVars, schedVars, choice, args, ret, raised, out>>

-----------------------------------------------------------------------------
(* Calls on a Schedule and a ScopeManager *)

\* schedule = Schedule()
NewSchedule ==
    /\ schedule = NoSchedule
    /\ \E w \in Worlds :
        LET c == ScheduleInit(w)
        IN  /\ world' = w
            /\ tried' = c.tried
            /\ raised' = c.raised
            /\ schedule' = IF c.raised = "none" THEN c.fields ELSE NoSchedule
            /\ scheduleAtInit' = schedule'
    /\ called' = "Schedule"
    /\ UNCHANGED <<choice, args, ret, out>>
    /\ UNCHANGED <<mainVars, llmVars>>

NoArgMethods ==
    {"update_graph", "compute_critical_path", "get_activities", "get_relationships",
     "_dispatch"}

OneArgMethods ==
    {"add_activity", "remove_activity", "add_relationship", "remove_relationship",
     "semantic_search_activities", "semantic_search_relationships",
     "_separate_prompt", "_remove_scope", "_add_scope"}

\* the arguments a caller can pass to method name
ArgLists(name) ==
    IF name \in NoArgMethods THEN {<<>>}
    ELSE IF name \in OneArgMethods THEN {<<a>> : a \in ArgValues}
    ELSE {<<a, b>> : a \in ArgValues, b \in ArgValues}

Arg(as, i) == IF i <= Len(as) THEN as[i] ELSE "None"

\* schedule.<name>(...) for a method of Schedule
CallScheduleMethod ==
    /\ schedule # NoSchedule
    /\ \E name \in ScheduleMutators \cup ScheduleQueries :
        \E as \in ArgLists(name) :
            LET r == CallSchedule(name, schedule, Arg(as, 1))
            IN  /\ called' = name
                /\ args' = as
                /\ ret' = r.ret
                /\ raised' = r.raised
                /\ out' = r.out
                /\ schedule' = r.sched
    /\ UNCHANGED <<choice, scheduleAtInit, world, tried>>
    /\ UNCHANGED <<mainVars, llmVars>>

\* scope_manager.<name>(...) for a method of ScopeManager
CallScopeManagerMethod ==
    /\ schedule # NoSchedule
    /\ \E name \in ScopeManagerMethods :
        \E as \in ArgLists(name) :
            LET r == CallScopeManager(name, schedule, Arg(as, 1), Arg(as, 2))
            IN  /\ called' = name
                /\ args' = as
                /\ ret' = r.ret
                /\ raised' = r.raised
                /\ out' = r.out
                /\ schedule' = r.sched
    /\ UNCHANGED <<choice, scheduleAtInit, world, tried>>
    /\ UNCHANGED <<mainVars, llmVars>>

-----------------------------------------------------------------------------
(* The program: python main.py *)

InitMain ==
    /\ pc = "dc_version"
    /\ exitStatus = "none"
    /\ mainExc = "none"
    /\ dockerRet = "none"
    /\ cmds = <<>>
    /\ lastRes = "none"
    /\ services_to_start = <<>>
    /\ elapsed = 0
    /\ cliStarted = FALSE

InitSchedule ==
    /\ schedule = NoSchedule
    /\ scheduleAtInit = NoSchedule
    /\ world = NoWorld
    /\ tried = <<>>

InitCall ==
    /\ choice = <<>>
    /\ called = "none"
    /\ args = <<>>
    /\ ret = "None"
    /\ raised = "none"
    /\ out = <<>>

InitLLM ==
    /\ llmEnv = [key |-> Unset, model |-> Unset]
    /\ llm = NoClient
    /\ llmRaised = "none"
    /\ request = NoRequest
    /\ promptArgs = [messages |-> <<>>, model |-> None]
    /\ answer = NoCompletion
    /\ completion = NoCompletion
    /\ llmRet = None

Init == InitMain /\ InitSchedule /\ InitCall /\ InitLLM

Next ==
    \/ DockerVersion
    \/ DockerPs
    \/ DockerUp
    \/ DockerWait
    \/ CliMain
    \/ MenuChoice
    \/ PressEnter

Spec == Init /\ [][Next]_vars

-----------------------------------------------------------------------------
(* A Schedule built in any environment, then any calls on it and on its     *)
(* ScopeManager                                                             *)

InitIdle ==
    /\ pc = "idle"
    /\ exitStatus = "none"
    /\ mainExc = "none"
    /\ dockerRet = "none"
    /\ cmds = <<>>
    /\ lastRes = "none"
    /\ services_to_start = <<>>
    /\ elapsed = 0
    /\ cliStarted = FALSE

InitAPI ==
    /\ InitIdle /\ InitCall /\ InitLLM
    /\ \E c \in ScheduleOutcomes :
        /\ c.raised = "none"
        /\ schedule = c.fields
        /\ scheduleAtInit = c.fields
    /\ world = NoWorld
    /\ tried = <<>>

NextAPI ==
    \/ CallScheduleMethod
    \/ CallScopeManagerMethod

SpecAPI == InitAPI /\ [][NextAPI]_vars

-----------------------------------------------------------------------------
(* Schedule() in any environment *)

InitNoSchedule == InitIdle /\ InitSchedule /\ InitCall /\ InitLLM

NextSchedule == NewSchedule

SpecSchedule == InitNoSchedule /\ [][NextSchedule]_vars

-----------------------------------------------------------------------------
(* An LLMClient built in any environment, then any calls on it *)

InitLLMClient ==
    /\ InitIdle /\ InitSchedule /\ InitCall
    /\ llmEnv \in LLMEnvs
    /\ llm = NoClient
    /\ llmRaised = "none"
    /\ request = NoRequest
    /\ promptArgs \in [messages : Messages, model : ModelArgs]
    /\ answer \in ApiOutcomes
    /\ completion = NoCompletion
    /\ llmRet = None

NextLLM ==
    \/ NewLLMClient
    \/ CallPrompt

SpecLLM == InitLLMClient /\ [][NextLLM]_vars

-----------------------------------------------------------------------------
(* An LLMClient built in any environment, then a call with tools *)

InitLLMTools ==
    /\ InitIdle /\ InitSchedule /\ InitCall
    /\ llmEnv \in LLMEnvs
    /\ llm = NoClient
    /\ llmRaised = "none"
    /\ request = NoRequest
    /\ promptArgs \in [messages : Messages, model : ModelArgs, tools : ToolLists]
    /\ answer \in ToolApiOutcomes
    /\ completion = NoCompletion
    /\ llmRet = None

NextLLMTools ==
    \/ NewLLMClient
    \/ CallPromptWithTools

SpecLLMTools == InitLLMTools /\ [][NextLLMTools]_vars

-----------------------------------------------------------------------------
(* Properties *)

Last(s) == s[Len(s)]

MenuChoices == {<<"1">>, <<"2">>, <<"3">>, <<"4">>, <<"5">>, <<"6">>, <<"7">>, <<"8">>}

\* the printed lines that say "not implemented yet"
NotImplementedLines ==
    {"Natural language prompt interface not implemented yet.",
     "Add activity functionality not implemented yet.",
     "Add relationship functionality not implemented yet.",
     "Delete activity functionality not implemented yet.",
     "Dissolve activity functionality not implemented yet.",
     "Delete relationship functionality not implemented yet.",
     "Schedule execution not implemented yet."}

\* C1: after each of the menu choices 1 to 7 a stub method has been called,
\* it has printed a "not implemented yet" line and has returned False or an
\* empty result without raising; choice 8 leaves the loop.
C1_MenuCallsStubs ==
    /\ choice \in MenuChoices \ {<<"8">>} =>
          /\ called \in ScopeManagerMethods \cup ScheduleMutators \cup ScheduleQueries
          /\ raised = "none"
          /\ ret \in {"False", "[]", "''", "('', '')"}
          /\ \E i \in 1..Len(out) : out[i] \in NotImplementedLines
    /\ choice = <<"8">> => pc = "returned"

\* C2: once the CLI has built its Schedule, no menu operation changes it:
\* the graph is the empty DiGraph and every field is as the constructor
\* left it.
C2_MenuLeavesSchedule ==
    schedule # NoSchedule =>
        /\ schedule = scheduleAtInit
        /\ schedule.graph = EmptyDiGraph

C2_Witness ==
    /\ pc = "cli_pause"
    /\ called = "_add_activity"
    /\ schedule # NoSchedule
    /\ schedule.chroma_client = "PersistentClient"

ScopeManagerBoolMethods == ScopeManagerMethods \ {"_separate_prompt", "_read_scope"}

\* C3: whatever the arguments and the state of the schedule, a Schedule
\* mutator returns False, a Schedule query returns an empty list, and a
\* ScopeManager method returns its placeholder: False, ('', '') for
\* _separate_prompt, '' for _read_scope.
C3_StubsReturnPlaceholders ==
    /\ called \in ScheduleMutators => ret = "False" /\ raised = "none"
    /\ called \in ScheduleQueries => ret = "[]" /\ raised = "none"
    /\ called \in ScopeManagerBoolMethods => ret = "False" /\ raised = "none"
    /\ called = "_separate_prompt" => ret = "('', '')" /\ raised = "none"
    /\ called = "_read_scope" => ret = "''" /\ raised = "none"

C3_Witness ==
    /\ called = "remove_activity"
    /\ args = <<"a1">>
    /\ schedule.neo4j_db = "driver"
    /\ ret = "False"

\* C4: the CLI is started only after check_docker_containers has returned,
\* and once it has returned, True or False, the next thing main does is
\* start the CLI.
C4_CliFollowsCheck ==
    /\ cliStarted => dockerRet \in {"True", "False"}
    /\ dockerRet \in {"True", "False"} =>
          cliStarted \/ (pc = "cli_main" /\ ENABLED CliMain)

C4_Witness ==
    /\ dockerRet = "False"
    /\ cliStarted
    /\ pc = "cli_menu"

\* C5: no Exception leaves check_docker_containers; it returns False when
\* `docker-compose --version` or `docker-compose up` exits non-zero and
\* when a subprocess call raises an Exception; and once it has returned it
\* runs no further command (so none after a failed --version, and no
\* health check after a failed up).
C5_CheckHandlesFailures ==
    /\ [](/\ (dockerRet = "none" /\ mainExc # "none") => ~IsException(mainExc)
          /\ (cmds # <<>> /\ Last(cmds) \in {"version", "up"} /\ lastRes = "nonzero")
                => dockerRet = "False"
          /\ lastRes = "FileNotFoundError" => dockerRet = "False")
    /\ [][dockerRet # "none" => cmds' = cmds]_vars

C5_Witness ==
    /\ cmds = <<"version", "ps", "up">>
    /\ lastRes = "nonzero"
    /\ dockerRet = "False"
    /\ pc = "cli_menu"

\* C6: an exception that reaches main ends the process at once, with exit
\* status 0 for KeyboardInterrupt and 1 for any Exception, be it raised in
\* the Docker check or in the CLI; main returns without sys.exit exactly
\* after menu choice 8.
C6_ExitStatus ==
    /\ mainExc # "none" => pc = "exited"
    /\ raised # "none" => mainExc = raised
    /\ (pc = "exited" /\ mainExc = "KeyboardInterrupt") => exitStatus = "0"
    /\ (pc = "exited" /\ IsException(mainExc)) => exitStatus = "1"
    /\ pc = "exited" => mainExc # "none"
    /\ pc = "returned" => exitStatus = "none" /\ mainExc = "none" /\ choice = <<"8">>
    /\ choice = <<"8">> => pc = "returned"

C6_Witness ==
    /\ pc = "exited"
    /\ cliStarted
    /\ schedule # NoSchedule
    /\ mainExc = "KeyboardInterrupt"
    /\ exitStatus = "0"

\* C7: Schedule() completes without raising in every environment; neo4j_db
\* is None when the Neo4j connection fails; chroma_client and both
\* collections are None when neither ChromaDB client can be made; a
\* collection that cannot be created is None; graph is an empty DiGraph.
C7_ScheduleInitNeverRaises ==
    called = "Schedule" =>
        /\ raised = "none"
        /\ schedule # NoSchedule
        /\ world.neo4j = "down" => schedule.neo4j_db = "None"
        /\ (world.server = "down" /\ world.persistent = "fail") =>
              schedule.chroma_client = "None"
        /\ schedule.chroma_client = "None" =>
              /\ schedule.activities_embeddings = "None"
              /\ schedule.relationships_embeddings = "None"
        /\ world.activities = "fail" => schedule.activities_embeddings = "None"
        /\ world.relationships = "fail" => schedule.relationships_embeddings = "None"
        /\ schedule.graph = EmptyDiGraph

C7_Witness ==
    /\ called = "Schedule"
    /\ world.neo4j = "down"
    /\ world.server = "down"
    /\ world.persistent = "ok"
    /\ world.activities = "fail"
    /\ world.relationships = "ok"
    /\ schedule.chroma_client = "PersistentClient"
    /\ schedule.activities_embeddings = "None"
    /\ schedule.relationships_embeddings = "Collection"

PortParses == IsIntLiteral(GetEnv(world.port, <<"8", "0", "0", "0">>))

C9_ClientNeedsKey ==
    called = "LLMClient" =>
        /\ (~llmEnv.key.set \/ llmEnv.key.val = <<>>) =>
              llmRaised = "ValueError" /\ llm.client = "unset"
        /\ (llmEnv.key.set /\ llmEnv.key.val # <<>>) =>
              /\ llmRaised = "none"
              /\ llm.client = "AsyncOpenAI"
              /\ llmEnv.model.set => llm.default_model = Str(llmEnv.model.val)
              /\ ~llmEnv.model.set => llm.default_model = Str(gpt_4o_mini)

C9_Witness ==
    /\ called = "LLMClient"
    /\ llmEnv.key = SetTo(<<>>)
    /\ llmRaised = "ValueError"
    /\ llm.client = "unset"

\* C10: whenever the API call succeeds, prompt returns the content of the
\* first choice of the completion.
C10_PromptReturnsContent ==
    (called = "prompt" /\ completion.ok /\ completion.choices # <<>>) =>
        /\ llmRaised = "none"
        /\ llmRet = completion.choices[1]

\* C11: when the API call succeeds, prompt_with_tools returns an empty list
\* if the first choice has no tool calls (None or an empty list), and
\* otherwise a list with one entry per tool call, in the same order, each
\* holding that call's id, type, function name and function arguments.
C11_ToolCallsReported ==
    (called = "prompt_with_tools" /\ completion.ok /\ completion.choices # <<>>) =>
        LET tool_calls == completion.choices[1]
        IN  /\ llmRaised = "none"
            /\ ~llmRet.none
            /\ (tool_calls.none \/ tool_calls.calls = <<>>) => llmRet.list = <<>>
            /\ (~tool_calls.none /\ tool_calls.calls # <<>>) =>
                  /\ Len(llmRet.list) = Len(tool_calls.calls)
                  /\ \A i \in 1..Len(tool_calls.calls) :
                        /\ llmRet.list[i].id = tool_calls.calls[i].id
                        /\ llmRet.list[i].type = tool_calls.calls[i].type
                        /\ llmRet.list[i].function.name =
                              tool_calls.calls[i].function.name
                        /\ llmRet.list[i].function.arguments =
                              tool_calls.calls[i].function.arguments

C11_Witness ==
    /\ called = "prompt_with_tools"
    /\ completion.ok
    /\ Len(completion.choices) = 2
    /\ ~completion.choices[1].none
    /\ Len(completion.choices[1].calls) = 2
    /\ completion.choices[1].calls[1].id = "call_2"
    /\ completion.choices[1].calls[2].id = "call_1"
    /\ Len(llmRet.list) = 2
    /\ llmRet.list[1].function.name = "delete_activity"

====
